---- MODULE Spec2Model ----
(***************************************************************************)
(* Model of legacy/mvar_plot_legacy.py: the three-axis parameter sweep     *)
(* (Script.run), its combination driver (draw_crp_pages), the axis option  *)
(* registry (axis_options with the apply_* and confirm_* functions) and    *)
(* the scoped save/restore of the shared settings                          *)
(* (SharedSettingsStackHelper).                                            *)
(*                                                                         *)
(* Text (prompts, axis fields, names) is a sequence of one-character       *)
(* strings, so that "in", find and replace are computed on characters.     *)
(* Indexes ipg, ir, ic are 0-based as in the source.                       *)
(***************************************************************************)
EXTENDS Integers, Sequences, FiniteSets, TLC

\* ---------------------------------------------------------------- bounds
\* Longest field list of one axis.
MaxLen == 2
\* Largest number of cells (pages x rows x cols) of one sweep.
MaxCells == 4
\* Largest START or END of a range field.
MaxNum == 5
\* Largest STEP of a step range; a count range has up to MaxStep + 1 samples.
MaxStep == 2
\* Longest field list of a Prompt order axis.
MaxTokens == 3
\* Longest prompt made of the characters of the Prompt order tokens.
MaxPrompt == 3

\* ------------------------------------------------------------------ text
\* Python's None.
None == <<"<None>">>

\* s[i:].startswith(t), i 1-based.
StartsAt(s, t, i) ==
    /\ i + Len(t) - 1 <= Len(s)
    /\ \A k \in 1..Len(t) : s[i + k - 1] = t[k]

\* Python `t in s` for strings.
Contains(t, s) == \E i \in 1..(Len(s) + 1) : StartsAt(s, t, i)

RECURSIVE ReplaceFrom(_, _, _, _)
ReplaceFrom(s, old, new, i) ==
    IF i > Len(s) THEN <<>>
    ELSE IF StartsAt(s, old, i) THEN new \o ReplaceFrom(s, old, new, i + Len(old))
    ELSE <<s[i]>> \o ReplaceFrom(s, old, new, i + 1)

RECURSIVE Interleave(_, _, _)
Interleave(s, new, i) ==
    IF i > Len(s) THEN new ELSE new \o <<s[i]>> \o Interleave(s, new, i + 1)

\* Python s.replace(old, new): every non-overlapping occurrence, left to right;
\* an empty `old` matches before every character and at the end.
Replace(s, old, new) ==
    IF old = <<>> THEN Interleave(s, new, 1) ELSE ReplaceFrom(s, old, new, 1)

LowerChar(ch) ==
    CASE ch = "L" -> "l"
      [] ch = "M" -> "m"
      [] ch = "S" -> "s"
      [] ch = "N" -> "n"
      [] ch = "H" -> "h"
      [] OTHER -> ch

\* Python s.lower().
Lower(s) == [i \in 1..Len(s) |-> LowerChar(s[i])]

DigitValue(ch) ==
    CASE ch = "0" -> 0 [] ch = "1" -> 1 [] ch = "2" -> 2 [] ch = "3" -> 3
      [] ch = "4" -> 4 [] ch = "5" -> 5 [] ch = "6" -> 6 [] ch = "7" -> 7
      [] ch = "8" -> 8 [] ch = "9" -> 9 [] OTHER -> -1

IsDigits(s) == Len(s) > 0 /\ \A i \in 1..Len(s) : DigitValue(s[i]) >= 0

RECURSIVE DigitsValue(_)
DigitsValue(s) ==
    IF s = <<>> THEN 0
    ELSE 10 * DigitsValue(SubSeq(s, 1, Len(s) - 1)) + DigitValue(s[Len(s)])

\* int(x) of a field accepts an optional sign followed by digits.
IsIntLiteral(s) ==
    \/ IsDigits(s)
    \/ Len(s) > 1 /\ s[1] \in {"+", "-"} /\ IsDigits(Tail(s))

ParseInt(s) ==
    IF s[1] = "-" THEN 0 - DigitsValue(Tail(s))
    ELSE IF s[1] = "+" THEN DigitsValue(Tail(s))
    ELSE DigitsValue(s)

\* ------------------------------------------------- the range grammars
\* The optional last group of re_range with its parentheses: "(", a sign that
\* is not optional, digits, ")".
IsStepGroup(s) ==
    /\ Len(s) >= 4 /\ s[1] = "(" /\ s[Len(s)] = ")"
    /\ s[2] \in {"+", "-"} /\ IsDigits(SubSeq(s, 3, Len(s) - 1))

\* The optional last group of re_range_count with its brackets: "[", digits, "]".
IsCountGroup(s) ==
    /\ Len(s) >= 3 /\ s[1] = "[" /\ s[Len(s)] = "]"
    /\ IsDigits(SubSeq(s, 2, Len(s) - 1))

\* The last group of re_range_count (counted) or of re_range.
IsGroup(counted, s) == IF counted THEN IsCountGroup(s) ELSE IsStepGroup(s)

NoMatch == [matched |-> FALSE, g1 |-> None, g2 |-> None, g3 |-> None]

\* The groups of a match: the first number ends before position ij[1] and
\* the second at ij[2], for the one ij of splits if there is any.
match_groups(val, splits) ==
    IF splits = {} THEN NoMatch
    ELSE LET ij == CHOOSE x \in splits : TRUE
         IN  [matched |-> TRUE,
              g1 |-> SubSeq(val, 1, ij[1] - 1),
              g2 |-> SubSeq(val, ij[1] + 1, ij[2]),
              g3 |-> IF ij[2] = Len(val) THEN None
                     ELSE SubSeq(val, ij[2] + 2, Len(val) - 1)]

\* pattern.fullmatch(val) for the two patterns, which differ in their last
\* group only: [+-]?\d+ "-" [+-]?\d+ and then nothing or the group. The fields
\* are stripped and have no inner white space, so every \s* matches the empty
\* string. The first number ends at the first "-" after the first character
\* and the second where the digits end, so there is at most one way to match.
range_fullmatch(val, counted) ==
    match_groups(val,
        { ij \in (2..Len(val)) \X (2..Len(val)) :
            /\ ij[1] < ij[2] /\ val[ij[1]] = "-"
            /\ IsIntLiteral(SubSeq(val, 1, ij[1] - 1))
            /\ IsIntLiteral(SubSeq(val, ij[1] + 1, ij[2]))
            /\ \/ ij[2] = Len(val)
               \/ IsGroup(counted, SubSeq(val, ij[2] + 1, Len(val))) })

re_range(val) == range_fullmatch(val, FALSE)

re_range_count(val) == range_fullmatch(val, TRUE)

\* list(range(start, stop, step)), step # 0: start, start + step, ... while
\* below stop (step > 0) or above stop (step < 0).
range(start, stop, step) ==
    LET n == IF step > 0
             THEN (IF stop > start THEN (stop - start + step - 1) \div step ELSE 0)
             ELSE (IF start > stop THEN (start - stop - step - 1) \div (0 - step) ELSE 0)
    IN  [k \in 1..n |-> start + (k - 1) * step]

\* int(x) of the number a / b, b > 0: truncation toward zero.
Trunc(a, b) == IF a >= 0 THEN a \div b ELSE 0 - ((0 - a) \div b)

\* [int(x) for x in np.linspace(start, stop, num).tolist()]: num samples,
\* start + i * (stop - start) / (num - 1), the only sample of num = 1 being
\* start.
linspace(start, stop, num) ==
    [k \in 1..num |->
        IF num = 1 THEN start
        ELSE Trunc(start * (num - 1) + (k - 1) * (stop - start), num - 1)]

\* sum(xs)
RECURSIVE sum(_)
sum(xs) == IF xs = <<>> THEN 0 ELSE Head(xs) + sum(Tail(xs))

\* Mutant: the rotations of xs only.
permutations_rotations(xs) ==
    [k \in 1..Len(xs) |-> SubSeq(xs, k, Len(xs)) \o SubSeq(xs, 1, k - 1)]

\* list(permutations(xs)): the orderings of the positions of xs, in
\* lexicographic order of the positions.
RECURSIVE permutations(_), permutations_from(_, _)
permutations_from(xs, i) ==
    IF i > Len(xs) THEN <<>>
    ELSE LET rest == permutations(SubSeq(xs, 1, i - 1) \o SubSeq(xs, i + 1, Len(xs)))
         IN  [k \in 1..Len(rest) |-> <<xs[i]>> \o rest[k]] \o permutations_from(xs, i + 1)

permutations(xs) ==
    IF xs = <<>> THEN << <<>> >> ELSE permutations_from(xs, 1)

\* ------------------------------------------- the host's name directories
\* sd_samplers.samplers_map: lower-cased name -> sampler name.
samplers_map == [k \in {<<"l", "m", "s">>} |-> <<"L", "M", "S">>]

\* modules.sd_models.checkpoints_list: the titles, in listing order.
checkpoints_list == << <<"A">>, <<"B">> >>

\* shared.hypernetworks: the names.
hypernetworks == { <<"h">> }

\* The shortest title that contains x, the first listed among equals.
get_closet_checkpoint_match(x) ==
    LET applicable == {i \in 1..Len(checkpoints_list) : Contains(x, checkpoints_list[i])}
    IN  IF applicable = {} THEN None
        ELSE checkpoints_list[CHOOSE i \in applicable :
                 \A j \in applicable :
                     \/ Len(checkpoints_list[i]) < Len(checkpoints_list[j])
                     \/ Len(checkpoints_list[i]) = Len(checkpoints_list[j]) /\ i <= j]

find_closest_hypernetwork_name(x) ==
    LET applicable == {n \in hypernetworks : Contains(Lower(x), Lower(n))}
    IN  IF x = <<>> \/ applicable = {} THEN None
        ELSE CHOOSE n \in applicable : \A m \in applicable : Len(n) <= Len(m)

\* ------------------------------------------------- axis option registry
\* The labels of axis_options that the sweeps below bind their axes to.
Labels ==
    {"Nothing", "Steps", "Prompt S/R", "Sampler", "Checkpoint name", "Hypernetwork",
     "Clip skip"}

\* AxisOption.type
opt_type(label) ==
    CASE label \in {"Seed", "Var. seed", "Steps", "Clip skip"} -> "int"
      [] label = "Prompt order" -> "str_permutations"
      [] label \in {"Nothing", "Prompt S/R", "Sampler", "Checkpoint name", "Hypernetwork"} -> "str"
      [] OTHER -> "float"

\* The outcome of an apply: the request copy, the shared settings, and
\* whether it returned (ok) or raised RuntimeError.
Applied(req, cfg) == [ok |-> TRUE, req |-> req, cfg |-> cfg]
Raised(req, cfg) == [ok |-> FALSE, req |-> req, cfg |-> cfg]

apply_field(field, req, cfg, x) ==
    Applied([req EXCEPT ![field] = x], cfg)

apply_prompt(req, cfg, x, xs) ==
    IF ~Contains(xs[1], req.prompt) /\ ~Contains(xs[1], req.negative_prompt)
    THEN Raised(req, cfg)
    ELSE Applied([req EXCEPT !.prompt = Replace(@, xs[1], x),
                             !.negative_prompt = Replace(@, xs[1], x)], cfg)

\* Python s.find(t): the 0-based index of the first occurrence, -1 if none.
find(s, t) ==
    IF Contains(t, s)
    THEN CHOOSE i \in 0..Len(s) :
            /\ StartsAt(s, t, i + 1)
            /\ \A j \in 0..(i - 1) : ~StartsAt(s, t, j + 1)
    ELSE -1

\* A slice bound of a sequence of length n: a negative index counts from the
\* end, and the bound is clipped to 0..n.
slice_index(i, n) ==
    IF i < 0 THEN (IF i + n < 0 THEN 0 ELSE i + n)
    ELSE IF i > n THEN n ELSE i

\* Python s[a:b].
slice(s, a, b) ==
    IF slice_index(a, Len(s)) >= slice_index(b, Len(s)) THEN <<>>
    ELSE SubSeq(s, slice_index(a, Len(s)) + 1, slice_index(b, Len(s)))

\* token_order of lines 40-44: (p.prompt.find(token), token) for token in x.
token_order(prompt, x) ==
    [i \in 1..Len(x) |-> [pos |-> find(prompt, x[i]), token |-> x[i]]]

\* The sorted list with e put behind the elements whose key is not greater.
sort_insert(sorted, e, k) ==
    SubSeq(sorted, 1, k) \o <<e>> \o SubSeq(sorted, k + 1, Len(sorted))

sort_place(sorted, e) ==
    sort_insert(sorted, e, Cardinality({k \in 1..Len(sorted) : sorted[k].pos <= e.pos}))

\* Mutant: token_order is left in the order of x.
sort_not_sorted(ts, n) == ts

\* list.sort(key=lambda t: t[0]) on the first n elements: stable.
RECURSIVE sort(_, _)
sort(ts, n) ==
    IF n = 0 THEN <<>> ELSE sort_place(sort(ts, n - 1), ts[n])

\* The loop of lines 49-52 from the i-th token on: the part in front of the
\* token is kept and the prompt goes on behind the token. A token that find
\* does not see gives n = -1.
RECURSIVE split_prompt(_, _, _, _)
split_at(prompt, order, i, parts, n) ==
    split_prompt(slice(prompt, n + Len(order[i].token), Len(prompt)), order, i + 1,
                 Append(parts, slice(prompt, 0, n)))

split_prompt(prompt, order, i, parts) ==
    IF i > Len(order) THEN [parts |-> parts, prompt |-> prompt]
    ELSE split_at(prompt, order, i, parts, find(prompt, order[i].token))

\* The loop of lines 55-59: prompt_tmp after the parts idx.. and x[idx]..
RECURSIVE rebuild(_, _, _)
rebuild(parts, x, idx) ==
    IF idx > Len(parts) THEN <<>>
    ELSE parts[idx] \o x[idx] \o rebuild(parts, x, idx + 1)

\* lines 59-61 on what the split loop left.
rebuilt_prompt(split, x) == rebuild(split.parts, x, 1) \o split.prompt

apply_order(req, cfg, x, xs) ==
    Applied([req EXCEPT !.prompt =
                rebuilt_prompt(split_prompt(req.prompt,
                                            sort(token_order(req.prompt, x), Len(x)),
                                            1, <<>>), x)], cfg)

apply_sampler(req, cfg, x) ==
    IF Lower(x) \notin DOMAIN samplers_map
    THEN Raised(req, cfg)
    ELSE Applied([req EXCEPT !.sampler_name = samplers_map[Lower(x)]], cfg)

confirm_samplers(xs) ==
    \A i \in 1..Len(xs) : Lower(xs[i]) \in DOMAIN samplers_map

\* Mutant: a reload without checkpoint info returns at once.
reload_model_weights_given(cfg, info) ==
    IF info = None THEN cfg ELSE [cfg EXCEPT !.sd_model = info]

\* reload_model_weights(sd_model, info): loads the weights of `info` into the
\* shared model object; with no info, those of the checkpoint the settings
\* select (opts.sd_model_checkpoint).
reload_model_weights(cfg, info) ==
    [cfg EXCEPT !.sd_model = IF info = None THEN cfg.sd_model_checkpoint ELSE info]

apply_checkpoint(req, cfg, x) ==
    LET info == get_closet_checkpoint_match(x)
    IN  IF info = None THEN Raised(req, cfg)
        ELSE Applied(req, reload_model_weights(cfg, info))

confirm_checkpoints(xs) ==
    \A i \in 1..Len(xs) : get_closet_checkpoint_match(xs[i]) # None

\* hypernetwork.load_hypernetwork(name): the named network, or none when the
\* name is None or names no network.
load_hypernetwork(cfg, name) ==
    [cfg EXCEPT !.loaded_hypernetwork = IF name \in hypernetworks THEN name ELSE None]

apply_hypernetwork(req, cfg, x) ==
    IF Lower(x) \in {<<>>, <<"n", "o", "n", "e">>}
    THEN Applied(req, load_hypernetwork(cfg, None))
    ELSE LET name == find_closest_hypernetwork_name(x)
         IN  IF name = None THEN Raised(req, cfg)
             ELSE Applied(req, load_hypernetwork(cfg, name))

confirm_hypernetworks(xs) ==
    \A i \in 1..Len(xs) :
        \/ Lower(xs[i]) \in {<<>>, <<"n", "o", "n", "e">>}
        \/ find_closest_hypernetwork_name(xs[i]) # None

apply_clip_skip(req, cfg, x) ==
    Applied(req, [cfg EXCEPT !.CLIP_stop_at_last_layers = x])

do_nothing(req, cfg) == Applied(req, cfg)

\* AxisOption.apply of the option with this label.
opt_apply(label, req, cfg, x, xs) ==
    CASE label = "Nothing" -> do_nothing(req, cfg)
      [] label = "Seed" -> apply_field("seed", req, cfg, x)
      [] label = "Var. seed" -> apply_field("subseed", req, cfg, x)
      [] label = "Steps" -> apply_field("steps", req, cfg, x)
      [] label = "Prompt S/R" -> apply_prompt(req, cfg, x, xs)
      [] label = "Prompt order" -> apply_order(req, cfg, x, xs)
      [] label = "Sampler" -> apply_sampler(req, cfg, x)
      [] label = "Checkpoint name" -> apply_checkpoint(req, cfg, x)
      [] label = "Hypernetwork" -> apply_hypernetwork(req, cfg, x)
      [] label = "Clip skip" -> apply_clip_skip(req, cfg, x)

\* AxisOption.confirm of the option with this label: TRUE when there is no
\* validator or the validator returns, FALSE when it raises.
opt_confirm(label, xs) ==
    CASE label = "Sampler" -> confirm_samplers(xs)
      [] label = "Checkpoint name" -> confirm_checkpoints(xs)
      [] label = "Hypernetwork" -> confirm_hypernetworks(xs)
      [] OTHER -> TRUE

\* ------------------------------------------------------------ process_axis
\* What process_axis gives: the value list when it returns, the exception
\* when it raises.
Returns(values) == [ok |-> TRUE, values |-> values, exc |-> "none"]
Raises(exc) == [ok |-> FALSE, values |-> <<>>, exc |-> exc]

\* Mutant: the END of a step range is left out.
step_range_exclusive(m) ==
    LET step == IF m.g3 # None THEN ParseInt(m.g3) ELSE 1
    IN  IF step = 0 THEN Raises("ValueError")
        ELSE Returns(range(ParseInt(m.g1), ParseInt(m.g2), step))

\* lines 340-344, m the match of re_range: range() raises ValueError on step 0.
step_range(m) ==
    LET step == IF m.g3 # None THEN ParseInt(m.g3) ELSE 1
    IN  IF step = 0 THEN Raises("ValueError")
        ELSE Returns(range(ParseInt(m.g1), ParseInt(m.g2) + 1, step))

\* lines 346-350, mc the match of re_range_count.
count_range(mc) ==
    Returns(linspace(ParseInt(mc.g1), ParseInt(mc.g2),
                     IF mc.g3 # None THEN ParseInt(mc.g3) ELSE 1))

\* line 352 with the int(x) of line 380 that a field of neither grammar goes
\* through: int(x) parses the literal and raises ValueError on anything else.
scalar(val) ==
    IF IsIntLiteral(val) THEN Returns(<<ParseInt(val)>>) ELSE Raises("ValueError")

\* lines 339-352 for one field, m and mc its matches.
matched_field(val, m, mc) ==
    IF m.matched THEN step_range(m)
    ELSE IF mc.matched THEN count_range(mc)
    ELSE scalar(val)

\* One field of an int axis, lines 337-352.
int_field(val) == matched_field(val, re_range(val), re_range_count(val))

\* valslist_ext += ..., with an exception of either side going through.
extend(h, t) ==
    IF h.ok /\ t.ok THEN Returns(h.values \o t.values) ELSE Raises("ValueError")

\* valslist_ext of an int axis: the expansions of the fields, in field order.
RECURSIVE valslist_ext(_)
valslist_ext(valslist) ==
    IF valslist = <<>> THEN Returns(<<>>)
    ELSE extend(int_field(Head(valslist)), valslist_ext(Tail(valslist)))

\* The typed values of lines 333-380, before the validator. str(x) of a string
\* and str_permutations(x) are the identity.
typed_values(label, valslist) ==
    CASE opt_type(label) = "int" -> valslist_ext(valslist)
      [] opt_type(label) = "str_permutations" -> Returns(permutations(valslist))
      [] OTHER -> Returns(valslist)

\* lines 383-386 on the outcome of the lines before: opt.confirm raises
\* RuntimeError or returns.
confirmed(label, typed) ==
    IF ~typed.ok THEN typed
    ELSE IF opt_confirm(label, typed.values) THEN typed
    ELSE Raises("RuntimeError")

\* Mutant: the values are returned without asking the validator.
process_axis_unconfirmed(label, valslist) ==
    IF label = "Nothing" THEN Returns(<<0>>)
    ELSE typed_values(label, valslist)

\* process_axis(opt, vals) on the stripped CSV fields of vals: the value list,
\* or the ValueError of a cast, or the RuntimeError of the validator.
process_axis(label, valslist) ==
    IF label = "Nothing" THEN Returns(<<0>>)
    ELSE confirmed(label, typed_values(label, valslist))

\* A Python int that can pass 2^31 is kept as two halves, hi * 2^16 + lo with
\* lo in 0 .. 2^16 - 1: the numbers of a Seed or Var. seed axis after
\* fix_axis_seeds.
Wide(n) == [hi |-> n \div 65536, lo |-> n % 65536]

WideLess(a, b) == a.hi < b.hi \/ (a.hi = b.hi /\ a.lo < b.lo)

\* The argument of random.randrange in fix_axis_seeds: 4294967294.
randrange_stop == [hi |-> 65535, lo |-> 65534]

\* The draws of random.randrange(4294967294) that are told apart: the least,
\* the greatest (4294967293), and one between.
randrange == {Wide(0), Wide(7), [hi |-> 65535, lo |-> 65533]}

\* Mutant: only the Seed axis is fixed.
fix_axis_seeds_seed_only(label, axis_list) ==
    IF label = "Seed"
    THEN LET unfixed == {i \in 1..Len(axis_list) : axis_list[i] = -1}
         IN  { [i \in 1..Len(axis_list) |->
                   IF i \in unfixed THEN draw[i] ELSE Wide(axis_list[i])]
               : draw \in [unfixed -> randrange] }
    ELSE IF label = "Var. seed"
    THEN { [i \in 1..Len(axis_list) |-> Wide(axis_list[i])] }
    ELSE {axis_list}

\* fix_axis_seeds(axis_opt, axis_list): the lists it can return, one for each
\* way of drawing a number for each value -1. The values of a Seed or Var.
\* seed axis are ints, never None or ''.
fix_axis_seeds(label, axis_list) ==
    IF label \in {"Seed", "Var. seed"}
    THEN LET unfixed == {i \in 1..Len(axis_list) : axis_list[i] = -1}
         IN  { [i \in 1..Len(axis_list) |->
                   IF i \in unfixed THEN draw[i] ELSE Wide(axis_list[i])]
               : draw \in [unfixed -> randrange] }
    ELSE {axis_list}

\* Mutant: high-resolution refinement is not counted.
steps_total_no_hr(req, col_label, cols, row_label, rows, page_label, pages) ==
    IF col_label = "Steps" THEN sum(cols) * Len(rows) * Len(pages)
    ELSE IF row_label = "Steps" THEN sum(rows) * Len(cols) * Len(pages)
    ELSE IF page_label = "Steps" THEN sum(pages) * Len(rows) * Len(cols)
    ELSE req.steps * Len(rows) * Len(cols) * Len(pages)

\* total_steps of lines 408-418.
steps_total(req, col_label, cols, row_label, rows, page_label, pages) ==
    LET steps == IF col_label = "Steps" THEN sum(cols) * Len(rows) * Len(pages)
                 ELSE IF row_label = "Steps" THEN sum(rows) * Len(cols) * Len(pages)
                 ELSE IF page_label = "Steps" THEN sum(pages) * Len(rows) * Len(cols)
                 ELSE req.steps * Len(rows) * Len(cols) * Len(pages)
    IN  IF req.txt2img /\ req.enable_hr THEN steps * 2 ELSE steps

\* ------------------------------------------------------------------ images
\* The (mode, size) pairs of the images the renderer returns.
Formats == { [mode |-> "RGB", size |-> <<2, 2>>], [mode |-> "L", size |-> <<3, 3>>] }

\* The image a render returns for the cell at = <<ipg, ir, ic>>.
CellImage(fmt, at) ==
    [t |-> "cell", mode |-> fmt.mode, size |-> fmt.size, at |-> at, cells |-> <<>>]

\* Image.new(mode, size); `at` records the cell the blank stands for, and
\* the tag whether it stands for a failed cell ("blank") or pads an
\* interrupted page ("padding").
Image_new(tag, mode, size, at) ==
    [t |-> tag, mode |-> mode, size |-> size, at |-> at, cells |-> <<>>]

\* images.image_grid(imgs, rows): an RGB image of cols x rows tiles of the
\* size of imgs[0]; `cells` records the images it was given.
image_grid(imgs, rows, page) ==
    LET cols == (Len(imgs) + rows - 1) \div rows
    IN  [t |-> "grid", mode |-> "RGB",
         size |-> <<cols * imgs[1].size[1], rows * imgs[1].size[2]>>,
         at |-> <<page>>, cells |-> imgs]

\* list.insert(i, x), i 0-based: before position i, at the end when i >= len.
Insert(s, i, x) ==
    IF i >= Len(s) THEN Append(s, x)
    ELSE SubSeq(s, 1, i) \o <<x>> \o SubSeq(s, i + 1, Len(s))

\* ---------------------------------------------------------------- results
\* processed_result before the first usable image (None).
NoResult ==
    [is_none |-> TRUE, images |-> <<>>, all_prompts |-> <<>>, all_seeds |-> <<>>,
     infotexts |-> <<>>, prompt |-> <<>>, seed |-> -1]

\* What process_images(pc) returns for a request: one image, or none.
Processed(req, imgs) ==
    [is_none |-> FALSE, images |-> imgs, all_prompts |-> <<req.prompt>>,
     all_seeds |-> <<req.seed>>, infotexts |-> <<<<"i">> \o req.prompt>>,
     prompt |-> req.prompt, seed |-> req.seed]

\* Mutant: cell_mode and cell_size follow every usable image, not the first.
absorb_cell_latest(processed, result, mode, size, include_lone, at) ==
    IF processed.images = <<>>
    THEN [image |-> Image_new("blank", mode, size, at), result |-> result,
          cell_mode |-> mode, cell_size |-> size]
    ELSE LET processed_image == processed.images[1]
             first == result.is_none
             m == processed_image.mode
             sz == processed_image.size
             template == IF first
                         THEN [processed EXCEPT !.images = <<>>, !.all_prompts = <<>>,
                                                !.all_seeds = <<>>, !.infotexts = <<>>]
                         ELSE result
             infotexts == IF first THEN <<>> ELSE processed.infotexts
             appended == [template EXCEPT !.images = Append(@, processed_image),
                                          !.all_prompts = Append(@, processed.prompt),
                                          !.all_seeds = Append(@, processed.seed)]
         IN  IF ~include_lone
             THEN [image |-> processed_image, result |-> template,
                   cell_mode |-> m, cell_size |-> sz]
             ELSE IF infotexts = <<>>
             THEN [image |-> Image_new("blank", m, sz, at), result |-> appended,
                   cell_mode |-> m, cell_size |-> sz]
             ELSE [image |-> processed_image,
                   result |-> [appended EXCEPT !.infotexts = Append(@, infotexts[1])],
                   cell_mode |-> m, cell_size |-> sz]

\* The try/except of draw_crp_pages around one cell's result: the image that
\* goes into the cache, and the template, cell_mode and cell_size after it.
\* processed_result = copy(processed) is a shallow copy, so its four lists
\* are the lists of `processed`, and clearing them empties processed.infotexts
\* too: with include_lone_images the later processed.infotexts[0] of that same
\* cell raises IndexError after three of the four appends, and the bare except
\* replaces the image by a blank of the template just captured.
absorb_cell(processed, result, mode, size, include_lone, at) ==
    IF processed.images = <<>>
    THEN [image |-> Image_new("blank", mode, size, at), result |-> result,
          cell_mode |-> mode, cell_size |-> size]
    ELSE LET processed_image == processed.images[1]
             first == result.is_none
             m == IF first THEN processed_image.mode ELSE mode
             sz == IF first THEN processed_image.size ELSE size
             template == IF first
                         THEN [processed EXCEPT !.images = <<>>, !.all_prompts = <<>>,
                                                !.all_seeds = <<>>, !.infotexts = <<>>]
                         ELSE result
             infotexts == IF first THEN <<>> ELSE processed.infotexts
             appended == [template EXCEPT !.images = Append(@, processed_image),
                                          !.all_prompts = Append(@, processed.prompt),
                                          !.all_seeds = Append(@, processed.seed)]
         IN  IF ~include_lone
             THEN [image |-> processed_image, result |-> template,
                   cell_mode |-> m, cell_size |-> sz]
             ELSE IF infotexts = <<>>
             THEN [image |-> Image_new("blank", m, sz, at), result |-> appended,
                   cell_mode |-> m, cell_size |-> sz]
             ELSE [image |-> processed_image,
                   result |-> [appended EXCEPT !.infotexts = Append(@, infotexts[1])],
                   cell_mode |-> m, cell_size |-> sz]

\* ------------------------------------------------------------------- state
VARIABLES
    p,                  \* the base request passed to run
    include_lone_images,
    no_fixed_seeds,
    col_module, col_values,     \* axis option (by label) and CSV fields per axis
    row_module, row_values,
    page_module, page_values,
    col_field_values, row_field_values, page_field_values,
    settings,           \* shared settings: opts.sd_model_checkpoint, the checkpoint
                        \* loaded in shared.sd_model, opts.sd_hypernetwork, the loaded
                        \* hypernetwork, opts.CLIP_stop_at_last_layers, opts.grid_save
    interrupted,        \* state.interrupted
    helper,             \* the fields of the SharedSettingsStackHelper
    cache_images, processed_result, cell_mode, cell_size,
    ipg, ir, ic,        \* loop indexes of draw_crp_pages, -1 while unbound
    returned,           \* what draw_crp_pages returned: processed and page_count
    saved,              \* number of grids handed to images.save_image
    pc,                 \* position in run
    exc,                \* the exception in flight, "none" when there is none
    renders,            \* history: number of process_images calls
    grid_calls,         \* history: the image lists given to images.image_grid
    entered,            \* history: <<the shared settings when the with block was entered>>
    observed,           \* history: a check has read state.interrupted as set
    first_ok,           \* history: <<the first usable image of the sweep>>, <<>> if none
    total_steps,        \* total_steps of run, -1 while unbound
    tqdm_total,         \* the total given to shared.total_tqdm.updateTotal
    job_count,          \* state.job_count
    job,                \* state.job: <<number, out of>>, <<>> before the first cell
    rendered,           \* history: the cell and the request of every process_images call
    expanded            \* history: <<the three value lists that process_axis returned>>

inputs == <<include_lone_images, no_fixed_seeds, col_module, col_values, row_module,
            row_values, page_module, page_values>>
axes == <<col_field_values, row_field_values, page_field_values>>
locals == <<cache_images, processed_result, cell_mode, cell_size>>
loop == <<ipg, ir, ic>>
history == <<renders, grid_calls, entered, observed, first_ok>>
tracker == <<total_steps, tqdm_total, job_count, job>>
trace == <<rendered, expanded>>
vars == <<p, inputs, tracker, trace, axes, settings, interrupted, helper, locals, loop, returned, saved,
          pc, exc, history>>

\* --------------------------------------------------------------- the inputs
\* The decimal digits 1..9 as characters.
Digits == <<"1", "2", "3", "4", "5", "6", "7", "8", "9">>

\* The names an axis of each textual option is given: for the options with a
\* validator a known name and an unknown one, for Prompt S/R the token "a" of
\* the prompt and the token "x".
Fields(label) ==
    CASE label = "Prompt S/R" -> { <<"a">>, <<"x">> }
      [] label = "Sampler" -> { <<"L", "M", "S">>, <<"x">> }
      [] label = "Checkpoint name" -> { <<"B">>, <<"x">> }
      [] label = "Hypernetwork" -> { <<"h">>, <<"x">> }
      [] OTHER -> {}

\* The field lists of an axis. A textual axis has up to MaxLen different
\* names, in any order; a Clip skip or Steps axis has the fields "1", "2", ...
\* up to MaxLen of them.
FieldLists(label) ==
    IF opt_type(label) = "int"
    THEN { [i \in 1..n |-> <<Digits[i]>>] : n \in 0..MaxLen }
    ELSE UNION { { fs \in [1..n -> Fields(label)] : \A i, j \in 1..n : fs[i] = fs[j] => i = j }
                 : n \in 0..MaxLen }

\* Number of values the axis will have.
AxisLen(label, fields) == IF label = "Nothing" THEN 1 ELSE Len(fields)

\* The calls of run: the base request, include_lone_images and no_fixed_seeds,
\* with the shared settings at the call. The token "x" of the Prompt S/R
\* fields is in neither prompt of the first request and in the negative prompt
\* of the second. The host keeps the loaded checkpoint and hypernetwork in line
\* with the settings that select them.
Calls ==
    { [p |-> [prompt |-> <<"a">>, negative_prompt |-> <<>>, sampler_name |-> <<"E">>,
              seed |-> 5, subseed |-> 6, steps |-> 20, txt2img |-> TRUE,
              enable_hr |-> FALSE, n_iter |-> 1, batch_size |-> 2],
       include_lone_images |-> FALSE,
       no_fixed_seeds |-> FALSE,
       settings |-> [sd_model_checkpoint |-> <<"A">>, sd_model |-> <<"A">>,
                     sd_hypernetwork |-> <<"N", "o", "n", "e">>,
                     loaded_hypernetwork |-> None,
                     CLIP_stop_at_last_layers |-> 1, grid_save |-> TRUE,
                     return_grid |-> TRUE]],
      [p |-> [prompt |-> <<"a">>, negative_prompt |-> <<"x">>, sampler_name |-> <<"E">>,
              seed |-> -1, subseed |-> 6, steps |-> 20, txt2img |-> TRUE,
              enable_hr |-> TRUE, n_iter |-> 2, batch_size |-> 2],
       include_lone_images |-> TRUE,
       no_fixed_seeds |-> TRUE,
       settings |-> [sd_model_checkpoint |-> <<"A">>, sd_model |-> <<"A">>,
                     sd_hypernetwork |-> <<"h">>, loaded_hypernetwork |-> <<"h">>,
                     CLIP_stop_at_last_layers |-> 2, grid_save |-> FALSE,
                     return_grid |-> FALSE]] }

\* No SharedSettingsStackHelper yet.
NoHelper ==
    [active |-> FALSE, CLIP_stop_at_last_layers |-> 0, hypernetwork |-> None,
     model |-> "shared.sd_model"]

\* draw_crp_pages has not returned.
NotReturned == [done |-> FALSE, processed |-> NoResult, page_count |-> 0]

\* Nothing of run has run yet.
NothingRun ==
    /\ col_field_values = <<>> /\ row_field_values = <<>> /\ page_field_values = <<>>
    /\ interrupted = FALSE
    /\ helper = NoHelper
    /\ cache_images = <<>> /\ processed_result = NoResult
    /\ cell_mode = "P" /\ cell_size = <<1, 1>>
    /\ ipg = -1 /\ ir = -1 /\ ic = -1
    /\ returned = NotReturned
    /\ saved = 0
    /\ pc = "start" /\ exc = "none"
    /\ renders = 0 /\ grid_calls = <<>> /\ entered = <<>>
    /\ observed = FALSE /\ first_ok = <<>>
    /\ total_steps = -1 /\ tqdm_total = -1 /\ job_count = -1 /\ job = <<>>
    /\ rendered = <<>> /\ expanded = <<>>

\* run is called: nothing of it has run yet.
Called ==
    /\ \E call \in Calls :
         /\ p = call.p
         /\ include_lone_images = call.include_lone_images
         /\ no_fixed_seeds = call.no_fixed_seeds
         /\ settings = call.settings
    /\ NothingRun

Init ==
    /\ col_module \in Labels /\ col_values \in FieldLists(col_module)
    /\ row_module \in Labels /\ row_values \in FieldLists(row_module)
    /\ page_module \in Labels /\ page_values \in FieldLists(page_module)
    /\ AxisLen(col_module, col_values) * AxisLen(row_module, row_values)
           * AxisLen(page_module, page_values) <= MaxCells
    /\ Called

\* ----------------------------------------------------------------- run
\* modules.processing.fix_seed(p) of the host: a seed or subseed of -1 becomes
\* a number drawn as in fix_axis_seeds; the requests it can leave.
fix_seed(req) ==
    LET fixed(v) == IF v = -1 THEN randrange ELSE {v}
    IN  { [req EXCEPT !.seed = s, !.subseed = t] :
            s \in fixed(req.seed), t \in fixed(req.subseed) }

\* run, lines 321-325
Start ==
    /\ pc = "start"
    /\ \E q \in (IF no_fixed_seeds THEN {p} ELSE fix_seed(p)) :
         p' = IF settings.return_grid THEN q ELSE [q EXCEPT !.batch_size = 1]
    /\ pc' = "col_axis"
    /\ UNCHANGED <<inputs, tracker, trace, axes, settings, interrupted, helper, locals,
                   loop, returned, saved, exc, history>>

\* run, lines 388-395: one process_axis call; a raising cast or confirm
\* validator ends run with the error, before the with block.
ProcessCol ==
    /\ pc = "col_axis"
    /\ \E r \in {process_axis(col_module, col_values)} :
           /\ col_field_values' = r.values
           /\ pc' = IF r.ok THEN "row_axis" ELSE "failed"
           /\ exc' = r.exc
    /\ UNCHANGED <<p, inputs, tracker, trace, row_field_values, page_field_values,
                   settings, interrupted, helper, locals, loop, returned, saved, history>>

ProcessRow ==
    /\ pc = "row_axis"
    /\ \E r \in {process_axis(row_module, row_values)} :
           /\ row_field_values' = r.values
           /\ pc' = IF r.ok THEN "page_axis" ELSE "failed"
           /\ exc' = r.exc
    /\ UNCHANGED <<p, inputs, tracker, trace, col_field_values, page_field_values,
                   settings, interrupted, helper, locals, loop, returned, saved, history>>

ProcessPage ==
    /\ pc = "page_axis"
    /\ \E r \in {process_axis(page_module, page_values)} :
           /\ page_field_values' = r.values
           /\ pc' = IF r.ok THEN "fix_seeds" ELSE "failed"
           /\ exc' = r.exc
    /\ UNCHANGED <<p, inputs, tracker, trace, col_field_values, row_field_values,
                   settings, interrupted, helper, locals, loop, returned, saved, history>>

\* run, lines 403-406
FixSeeds ==
    /\ pc = "fix_seeds"
    /\ expanded' = <<col_field_values, row_field_values, page_field_values>>
    /\ IF no_fixed_seeds
       THEN UNCHANGED axes
       ELSE /\ col_field_values' \in fix_axis_seeds(col_module, col_field_values)
            /\ row_field_values' \in fix_axis_seeds(row_module, row_field_values)
            /\ page_field_values' \in fix_axis_seeds(page_module, page_field_values)
    /\ pc' = "total_steps"
    /\ UNCHANGED <<p, inputs, tracker, rendered, settings, interrupted, helper, locals,
                   loop, returned, saved, exc, history>>

\* run, lines 408-421
TotalSteps ==
    /\ pc = "total_steps"
    /\ total_steps' = steps_total(p, col_module, col_field_values,
                                  row_module, row_field_values,
                                  page_module, page_field_values)
    /\ tqdm_total' = total_steps' * p.n_iter
    /\ pc' = "enter"
    /\ UNCHANGED <<p, inputs, job_count, job, trace, axes, settings, interrupted, helper,
                   locals, loop, returned, saved, exc, history>>

\* The heads of the three nested for loops of draw_crp_pages: where control
\* goes when the loop is asked for its element number g, r or c. A Python loop
\* variable keeps its last value when the loop is exhausted.
ColLoop(g, r, c, curc) ==
    IF c < Len(col_field_values)
    THEN [pc |-> "cell", ipg |-> g, ir |-> r, ic |-> c]
    ELSE [pc |-> "check_row", ipg |-> g, ir |-> r, ic |-> curc]

\* Mutant: the column loop of a row starts at its second element.
RowLoop_skip_first(g, r, curr, curc) ==
    IF r < Len(row_field_values)
    THEN ColLoop(g, r, 1, curc)
    ELSE [pc |-> "compose", ipg |-> g, ir |-> curr, ic |-> curc]

RowLoop(g, r, curr, curc) ==
    IF r < Len(row_field_values)
    THEN ColLoop(g, r, 0, curc)
    ELSE [pc |-> "compose", ipg |-> g, ir |-> curr, ic |-> curc]

PageLoop(g, curg, curr, curc) ==
    IF g < Len(page_field_values)
    THEN RowLoop(g, 0, curr, curc)
    ELSE [pc |-> "return", ipg |-> curg, ir |-> curr, ic |-> curc]

Goto(n) == pc' = n.pc /\ ipg' = n.ipg /\ ir' = n.ir /\ ic' = n.ic

\* SharedSettingsStackHelper.__enter__, then draw_crp_pages up to its first
\* loop head (line 189 sets state.job_count).
Enter ==
    /\ pc = "enter"
    /\ helper' = [active |-> TRUE,
                  CLIP_stop_at_last_layers |-> settings.CLIP_stop_at_last_layers,
                  hypernetwork |-> settings.sd_hypernetwork,
                  model |-> "shared.sd_model"]
    /\ entered' = <<settings, p>>
    /\ job_count' = Len(col_field_values) * Len(row_field_values)
                        * Len(page_field_values) * p.n_iter
    /\ Goto(PageLoop(0, ipg, ir, ic))
    /\ UNCHANGED <<p, inputs, total_steps, tqdm_total, job, trace, axes, settings,
                   interrupted, locals, returned, saved, exc, renders, grid_calls,
                   observed, first_ok>>

\* The UI sets state.interrupted from its own thread, at any moment of the
\* sweep; nothing clears it before the job ends.
Interrupt ==
    /\ pc \in {"cell", "check_col", "check_row", "compose", "check_page"}
    /\ ~interrupted
    /\ interrupted' = TRUE
    /\ UNCHANGED <<p, inputs, tracker, trace, axes, settings, helper, locals, loop, returned, saved, pc, exc,
                   history>>

\* Mutant: the applies of a cell work on the base request itself.
base_aliased(base, applied) == applied

\* pc = copy(p), line 424: the base request after the applies of a cell have
\* written their fields into the copy.
base_after_applies(base, applied) == base

\* cell(c, r, pg) of run up to process_images: the three applies on a copy of
\* p, column first; an apply that raises skips the later ones.
cell(col_value, row_value, page_value) ==
    LET a1 == opt_apply(col_module, p, settings, col_value, col_field_values)
        a2 == IF a1.ok
              THEN opt_apply(row_module, a1.req, a1.cfg, row_value, row_field_values)
              ELSE a1
    IN  IF a2.ok
        THEN opt_apply(page_module, a2.req, a2.cfg, page_value, page_field_values)
        ELSE a2

\* state.job of line 207: the number and the total of its text.
job_text(g, r, c) ==
    <<c + (r * g) * Len(col_field_values) + 1,
      Len(col_field_values) * Len(row_field_values) * Len(page_field_values)>>

\* draw_crp_pages, lines 207-237: one cell. cell() is called outside the try:
\* an exception of an apply or of process_images leaves draw_crp_pages.
Cell ==
    /\ pc = "cell"
    /\ job' = job_text(ipg, ir, ic)
    /\ LET a == cell(col_field_values[ic + 1], row_field_values[ir + 1],
                     page_field_values[ipg + 1])
           at == <<ipg, ir, ic>>
       IN  /\ settings' = a.cfg
           /\ p' = base_after_applies(p, a.req)
           /\ \/ /\ ~a.ok
                 /\ pc' = "exit" /\ exc' = "RuntimeError"
                 /\ UNCHANGED <<locals, renders, first_ok, rendered>>
              \/ /\ a.ok
                 /\ renders' = renders + 1
                 /\ rendered' = Append(rendered, [at |-> at, req |-> a.req])
                 /\ \/ /\ pc' = "exit" /\ exc' = "RenderError"
                       /\ UNCHANGED <<locals, first_ok>>
                    \/ \E imgs \in {<<>>} \cup {<<CellImage(f, at)>> : f \in Formats} :
                         LET r == absorb_cell(Processed(a.req, imgs), processed_result,
                                              cell_mode, cell_size, include_lone_images, at)
                         IN  /\ processed_result' = r.result
                             /\ cell_mode' = r.cell_mode
                             /\ cell_size' = r.cell_size
                             /\ cache_images' = Append(cache_images, r.image)
                             /\ first_ok' = IF first_ok = <<>> THEN imgs ELSE first_ok
                             /\ pc' = "check_col" /\ exc' = "none"
    /\ UNCHANGED <<inputs, total_steps, tqdm_total, job_count, expanded, axes, interrupted,
                   helper, loop, returned, saved, grid_calls, entered, observed>>

\* line 241: if state.interrupted: break
CheckCol ==
    /\ pc = "check_col"
    /\ IF interrupted
       THEN pc' = "check_row" /\ UNCHANGED loop
       ELSE Goto(ColLoop(ipg, ir, ic + 1, ic))
    /\ observed' = (observed \/ interrupted)
    /\ UNCHANGED <<p, inputs, tracker, trace, axes, settings, interrupted, helper, locals, returned, saved,
                   exc, renders, grid_calls, entered, first_ok>>

\* Mutant: an interrupted page is left as short as it is.
pad_none(cache, n) == cache

\* Mutant: an interrupted page is padded to the end of its current row only.
RECURSIVE pad_row(_, _)
pad_row(cache, n) ==
    IF Len(cache) >= n \/ Len(cache) % Len(col_field_values) = 0 THEN cache
    ELSE pad_row(Append(cache,
                        Image_new("padding", cell_mode, cell_size,
                                  <<ipg, Len(cache) \div Len(col_field_values),
                                    Len(cache) % Len(col_field_values)>>)), n)

\* The blanks of lines 243-244: one per missing position of the page.
RECURSIVE pad(_, _)
pad(cache, n) ==
    IF Len(cache) >= n THEN cache
    ELSE pad(Append(cache,
                    Image_new("padding", cell_mode, cell_size,
                              <<ipg, Len(cache) \div Len(col_field_values),
                                Len(cache) % Len(col_field_values)>>)), n)

\* lines 242-245
CheckRow ==
    /\ pc = "check_row"
    /\ IF interrupted
       THEN /\ cache_images' = pad(cache_images,
                                   Len(col_field_values) * Len(row_field_values))
            /\ pc' = "compose" /\ UNCHANGED loop
       ELSE /\ Goto(RowLoop(ipg, ir + 1, ir, ic))
            /\ UNCHANGED cache_images
    /\ observed' = (observed \/ interrupted)
    /\ UNCHANGED <<p, inputs, tracker, trace, axes, settings, interrupted, helper, processed_result,
                   cell_mode, cell_size, returned, saved, exc, renders, grid_calls,
                   entered, first_ok>>

\* lines 247-263: compose the page and insert it into the result. image_grid
\* raises on no images or no rows; processed_result.images raises
\* AttributeError while processed_result is None.
Compose ==
    /\ pc = "compose"
    /\ grid_calls' = Append(grid_calls, cache_images)
    /\ IF cache_images = <<>> \/ Len(row_field_values) = 0
       THEN /\ pc' = "exit" /\ exc' = "GridError"
            /\ UNCHANGED locals
       ELSE /\ cache_images' = <<>>
            /\ UNCHANGED <<cell_mode, cell_size>>
            /\ IF processed_result.is_none
               THEN /\ pc' = "exit" /\ exc' = "AttributeError"
                    /\ UNCHANGED processed_result
               ELSE /\ processed_result' =
                         [processed_result EXCEPT
                            !.images = Insert(@, ipg, image_grid(cache_images,
                                                   Len(row_field_values), ipg)),
                            !.all_prompts = Insert(@, ipg, <<>>),
                            !.all_seeds = Insert(@, ipg, -1),
                            !.infotexts = Insert(@, ipg, <<>>)]
                    /\ pc' = "check_page" /\ exc' = "none"
    /\ UNCHANGED <<p, inputs, tracker, trace, axes, settings, interrupted, helper, loop, returned, saved,
                   renders, entered, observed, first_ok>>

\* Mutant: the page loop goes on after an interrupted page.
CheckPageContinue ==
    /\ pc = "check_page"
    /\ Goto(PageLoop(ipg + 1, ipg, ir, ic))
    /\ observed' = (observed \/ interrupted)
    /\ UNCHANGED <<p, inputs, tracker, trace, axes, settings, interrupted, helper, locals, returned, saved,
                   exc, renders, grid_calls, entered, first_ok>>

\* line 265
CheckPage ==
    /\ pc = "check_page"
    /\ IF interrupted
       THEN pc' = "return" /\ UNCHANGED loop
       ELSE Goto(PageLoop(ipg + 1, ipg, ir, ic))
    /\ observed' = (observed \/ interrupted)
    /\ UNCHANGED <<p, inputs, tracker, trace, axes, settings, interrupted, helper, locals, returned, saved,
                   exc, renders, grid_calls, entered, first_ok>>

\* lines 267-271. Processed() is the host's constructor called with no
\* argument: it gives the default result, or raises TypeError where the
\* host's constructor requires arguments.
Return ==
    /\ pc = "return"
    /\ IF processed_result.is_none
       THEN \/ /\ returned' = [done |-> TRUE, processed |-> NoResult, page_count |-> 0]
               /\ pc' = "save" /\ exc' = "none"
            \/ /\ pc' = "exit" /\ exc' = "TypeError"
               /\ UNCHANGED returned
       ELSE /\ returned' = [done |-> TRUE, processed |-> processed_result,
                            page_count |-> ipg + 1]
            /\ pc' = "save" /\ exc' = "none"
    /\ UNCHANGED <<p, inputs, tracker, trace, axes, settings, interrupted, helper, locals, loop, saved,
                   history>>

\* lines 445-447: with opts.grid_save every page grid goes to save_image.
Save ==
    /\ pc = "save"
    /\ saved' = IF settings.grid_save THEN returned.page_count ELSE 0
    /\ pc' = "exit"
    /\ UNCHANGED <<p, inputs, tracker, trace, axes, settings, interrupted, helper, locals, loop, returned,
                   exc, history>>

\* SharedSettingsStackHelper.__exit__: on the normal end of the with block and
\* on an exception leaving it, which it lets through. self.model is the shared
\* model object itself, reloaded with no checkpoint info.
Exit ==
    /\ pc = "exit"
    /\ settings' = [load_hypernetwork(reload_model_weights(settings, None),
                                      helper.hypernetwork)
                    EXCEPT !.CLIP_stop_at_last_layers = helper.CLIP_stop_at_last_layers]
    /\ pc' = IF exc = "none" THEN "done" ELSE "failed"
    /\ UNCHANGED <<p, inputs, tracker, trace, axes, interrupted, helper, locals, loop, returned, saved, exc,
                   history>>

Next ==
    \/ Start \/ ProcessCol \/ ProcessRow \/ ProcessPage \/ FixSeeds \/ TotalSteps
    \/ Enter \/ Interrupt
    \/ Cell \/ CheckCol \/ CheckRow \/ Compose \/ CheckPage \/ Return
    \/ Save \/ Exit

Spec == Init /\ [][Next]_vars

\* ------------------------------------------------------ the axis expansions
\* run up to the with block, on axes whose fields use the range grammars, the
\* value -1 of the seed axes and the token lists of Prompt order.
DecimalDigits == <<"0", "1", "2", "3", "4", "5", "6", "7", "8", "9">>

\* START and END of the range fields: 0 .. MaxNum and -1.
Numbers == { <<DecimalDigits[n + 1]>> : n \in 0..MaxNum } \cup { <<"-", "1">> }

\* What follows END: nothing, a signed step, a step without sign, a count.
Groups ==
    { <<>>, <<"(", "2", ")">> }
    \cup { <<"(", sg, DecimalDigits[n + 1], ")">> : sg \in {"+", "-"}, n \in 0..MaxStep }
    \cup { <<"[", DecimalDigits[n + 1], "]">> : n \in 0..(MaxStep + 1) }

RangeFields == { s \o <<"-">> \o e \o g : s \in Numbers, e \in Numbers, g \in Groups }

\* The field lists of an int axis: no field, one field (a range, a number, a
\* word, the empty field), or several of "-1", "2" and "1-2".
IntFieldLists ==
    { <<>> }
    \cup { <<f>> : f \in RangeFields \cup Numbers \cup { <<"x">>, <<>> } }
    \cup UNION { [1..n -> { <<"-", "1">>, <<"2">>, <<"1", "-", "2">> }] : n \in 2..(MaxLen + 1) }

\* The field lists of a Prompt order axis: up to MaxTokens tokens, repeated or not.
TokenLists == UNION { [1..n -> { <<"a">>, <<"b">>, <<"c">> }] : n \in 0..MaxTokens }

\* An axis as <<label, fields>>.
RichAxes ==
    { <<l, fs>> : l \in {"Seed", "Var. seed", "Steps", "Clip skip"}, fs \in IntFieldLists }
    \cup { <<"Prompt order", fs>> : fs \in TokenLists }
    \cup UNION { { <<l, fs>> : fs \in FieldLists(l) } : l \in {"Prompt S/R", "Sampler"} }

SmallAxes ==
    { <<"Nothing", <<>>>>,
      <<"Steps", << <<"1", "-", "2">> >> >>,
      <<"Seed", << <<"-", "1">>, <<"3">> >> >>,
      <<"Var. seed", << <<"-", "1">> >> >> }

InitExpansion ==
    /\ \E a \in RichAxes \cup SmallAxes : col_module = a[1] /\ col_values = a[2]
    /\ \E a \in SmallAxes : row_module = a[1] /\ row_values = a[2]
    /\ \E a \in SmallAxes : page_module = a[1] /\ page_values = a[2]
    /\ Called

NextExpansion ==
    Start \/ ProcessCol \/ ProcessRow \/ ProcessPage \/ FixSeeds \/ TotalSteps

Expansion == InitExpansion /\ [][NextExpansion]_vars

\* ------------------------------------------------- the Prompt order applies
\* run with a Prompt order column, and the applies of its cells without the
\* renders. The prompts: the texts of up to MaxPrompt characters over "r",
\* "b" and the blank, and some with more tokens and other text.
OrderPrompts ==
    UNION { [1..n -> {"r", "b", " "}] : n \in 0..MaxPrompt }
    \cup { <<"a", " ", "r", " ", "b", " ", "d">>, <<"g", " ", "r", " ", "b">>,
           <<"b", "g", "r">>, <<"r", "r", "g", " ", "b">>, <<"r", "g", "b", "g">>,
           <<"x", "g", "b", "y", "b", "g", "z">> }

\* The field lists: up to MaxTokens of the tokens "r", "b", "g", repeated or
\* not, and lists with an empty token and with tokens that contain others.
OrderTokenLists ==
    UNION { [1..n -> { <<"r">>, <<"b">>, <<"g">> }] : n \in 0..MaxTokens }
    \cup { << <<"r", "b">>, <<"b">> >>, << <<"b", "g">>, <<"g", "b">> >>,
           << <<>>, <<"r">> >>, << <<"r", "g">>, <<"b">> >>,
           << <<"g", "b">>, <<"b", "g">>, <<"x">> >> }

InitReorder ==
    /\ \E call \in Calls, prompt \in OrderPrompts :
         /\ p = [call.p EXCEPT !.prompt = prompt]
         /\ include_lone_images = call.include_lone_images
         /\ no_fixed_seeds = call.no_fixed_seeds
         /\ settings = call.settings
    /\ col_module = "Prompt order" /\ col_values \in OrderTokenLists
    /\ row_module = "Nothing" /\ row_values = <<>>
    /\ page_module = "Nothing" /\ page_values = <<>>
    /\ NothingRun

\* cell() of run, lines 423-427, for the next cell of the row: the copy of p
\* and the three applies, the render left out.
ApplyCell ==
    /\ pc = "cell"
    /\ \E a \in {cell(col_field_values[ic + 1], row_field_values[ir + 1],
                      page_field_values[ipg + 1])} :
         /\ a.ok
         /\ settings' = a.cfg
         /\ p' = base_after_applies(p, a.req)
         /\ rendered' = Append(rendered, [at |-> <<ipg, ir, ic>>, req |-> a.req])
    /\ Goto(ColLoop(ipg, ir, ic + 1, ic))
    /\ UNCHANGED <<inputs, tracker, expanded, axes, interrupted, helper, locals, returned,
                   saved, exc, history>>

NextReorder ==
    Start \/ ProcessCol \/ ProcessRow \/ ProcessPage \/ FixSeeds \/ TotalSteps
    \/ Enter \/ ApplyCell

Reorder == InitReorder /\ [][NextReorder]_vars

\* ================================================================ claims
Terminal == pc \in {"done", "failed"}

NPages == Len(page_field_values)
NRows == Len(row_field_values)
NCols == Len(col_field_values)

RECURSIVE TotalLen(_)
TotalLen(calls) ==
    IF calls = <<>> THEN 0 ELSE Len(Head(calls)) + TotalLen(Tail(calls))

\* Number of cells placed into page grids so far.
PlacedCells == TotalLen(grid_calls)

\* The blanks made so far: those in the cache and those already composed.
Blanks ==
    LET placed == {cache_images[i] : i \in 1..Len(cache_images)}
                  \cup UNION { {grid_calls[k][i] : i \in 1..Len(grid_calls[k])}
                               : k \in 1..Len(grid_calls) }
    IN  {b \in placed : b.t \in {"blank", "padding"}}

\* Cell a comes before cell b in render order.
Before(a, b) ==
    \/ a[1] < b[1]
    \/ a[1] = b[1] /\ a[2] < b[2]
    \/ a[1] = b[1] /\ a[2] = b[2] /\ a[3] < b[3]

\* ---- C1
\* C1: whenever a run that entered the with block has ended (normally,
\* interrupted, or with an exception of an apply, a render or the driver), the
\* loaded checkpoint, the loaded hypernetwork and the CLIP layer-skip count are
\* those at the entry of the block.
C1_SettingsRestored ==
    (Terminal /\ Len(entered) > 0) =>
        /\ settings.sd_model = entered[1].sd_model
        /\ settings.loaded_hypernetwork = entered[1].loaded_hypernetwork
        /\ settings.CLIP_stop_at_last_layers = entered[1].CLIP_stop_at_last_layers

\* A render raised in the second cell of an interrupted sweep, after the
\* applies had swapped checkpoint, hypernetwork and clip skip.
C1_Witness ==
    /\ pc = "failed" /\ exc = "RenderError" /\ interrupted
    /\ col_module = "Checkpoint name" /\ col_field_values = << <<"B">> >>
    /\ row_module = "Hypernetwork" /\ row_field_values = << <<"h">> >>
    /\ page_module = "Clip skip" /\ page_field_values = <<1, 2>>
    /\ renders = 2
    /\ Len(entered) > 0
    /\ entered[1].sd_model = <<"A">>
    /\ entered[1].loaded_hypernetwork = None
    /\ entered[1].CLIP_stop_at_last_layers = 1

\* ---- C2
\* A field no name directory of the host knows, for the options with a validator.
UnknownName(label, f) ==
    CASE label = "Sampler" -> \A k \in DOMAIN samplers_map : Lower(f) # k
      [] label = "Checkpoint name" ->
            \A i \in 1..Len(checkpoints_list) : ~Contains(f, checkpoints_list[i])
      [] label = "Hypernetwork" ->
            /\ Lower(f) # <<>> /\ Lower(f) # <<"n", "o", "n", "e">>
            /\ \A n \in hypernetworks : ~Contains(Lower(f), Lower(n))
      [] OTHER -> FALSE

AxisRejected(label, fields) ==
    label # "Nothing" /\ \E i \in 1..Len(fields) : UnknownName(label, fields[i])

SomeAxisRejected ==
    \/ AxisRejected(col_module, col_values)
    \/ AxisRejected(row_module, row_values)
    \/ AxisRejected(page_module, page_values)

\* C2: when an axis (column, row or page) has a value its validator rejects,
\* at any position, run never gets past the axis expansion: it ends with
\* RuntimeError, never enters the sweep, and no render call is made.
C2_ConfirmBeforeRender ==
    SomeAxisRejected =>
        /\ renders = 0
        /\ pc \in {"start", "col_axis", "row_axis", "page_axis", "failed"}
        /\ Len(entered) = 0
        /\ pc = "failed" => exc = "RuntimeError"

\* run has failed on the unknown second value of the page axis, after two valid
\* axes.
C2_Witness ==
    /\ pc = "failed" /\ renders = 0
    /\ col_module = "Clip skip" /\ col_field_values = <<1, 2>>
    /\ row_module = "Sampler" /\ row_field_values = << <<"L", "M", "S">> >>
    /\ page_module = "Hypernetwork" /\ page_values = << <<"h">>, <<"x">> >>

\* ---- C3
\* C3 as stated: a sweep that returns has placed pages x rows x cols cells
\* into page grids.
C3_AllCellsPlaced ==
    pc = "done" => PlacedCells = NPages * NRows * NCols

\* C3 amended: the cells placed into page grids are rows x cols for each
\* composed page, no more pages are composed than the sweep has, and a sweep
\* that returns without a check having seen the interrupt flag set has placed
\* pages x rows x cols cells.
C3_CellsPerComposedPage ==
    /\ PlacedCells = Len(grid_calls) * NRows * NCols
    /\ Len(grid_calls) <= NPages
    /\ (pc = "done" /\ ~observed) => PlacedCells = NPages * NRows * NCols

\* An interrupted sweep of two pages has returned with its first page padded
\* and its second page never composed.
C3_Witness ==
    /\ pc = "done" /\ observed
    /\ NPages = 2 /\ NRows * NCols = 2
    /\ Len(grid_calls) = 1
    /\ grid_calls[1][2].t = "padding"
    /\ PlacedCells < NPages * NRows * NCols

\* ---- C4
\* C4: a render that raises is replaced by a blank and never leaves
\* draw_crp_pages.
C4_RenderFailureAbsorbed ==
    exc # "RenderError"

\* ---- C5
\* C5: a sweep that rendered cells, none with a usable image and none raising,
\* ends by returning the empty default result with page count 0.
C5_EmptyResultReturned ==
    (Terminal /\ renders > 0 /\ first_ok = <<>> /\ exc \notin {"RenderError", "RuntimeError"}) =>
        /\ pc = "done"
        /\ returned.done /\ returned.page_count = 0 /\ returned.processed = NoResult

\* ---- C6
\* C6: every image list given to image_grid has rows x cols images: the cells
\* of the page rendered so far (image or blank) in row-major order, followed
\* by padding only; there is no padding unless the interrupt flag is set.
C6_GridGetsFullPage ==
    \A k \in 1..Len(grid_calls) :
        LET imgs == grid_calls[k]
        IN  /\ Len(imgs) = NRows * NCols
            /\ \E n \in 0..Len(imgs) :
                 /\ \A i \in 1..n :
                      /\ imgs[i].t \in {"cell", "blank"}
                      /\ imgs[i].at = <<k - 1, (i - 1) \div NCols, (i - 1) % NCols>>
                 /\ \A i \in (n + 1)..Len(imgs) : imgs[i].t = "padding"
                 /\ ~interrupted => n = Len(imgs)

\* A page of 2 x 2 interrupted after its first row went to image_grid.
C6_Witness ==
    /\ Len(grid_calls) > 0
    /\ Len(grid_calls[1]) = 4
    /\ grid_calls[1][1].t = "cell" /\ grid_calls[1][2].t = "blank"
    /\ grid_calls[1][3].t = "padding" /\ grid_calls[1][4].t = "padding"

\* ---- C7
\* C7: once a check has read the interrupt flag as set, no render call
\* follows, the page loop stays on its page, that page is composed exactly once
\* (it is composed when draw_crp_pages returns, and no other page after it).
C7_NoWorkAfterInterrupt ==
    [][observed =>
          /\ renders' = renders
          /\ ipg' = ipg
          /\ Len(grid_calls') <= ipg + 1
          /\ pc' = "return" => Len(grid_calls') = ipg + 1]_vars

\* A sweep of two pages returned after an interrupt seen in its first page:
\* one render, one composed page.
C7_Witness ==
    /\ pc = "done" /\ observed
    /\ NPages = 2 /\ NRows * NCols = 2
    /\ renders = 1 /\ Len(grid_calls) = 1

\* ---- C8
\* C8: when an apply of the sweep raises because the search token of a
\* Prompt S/R axis is in neither prompt, no render call has been made.
C8_TokenErrorBeforeRender ==
    (exc = "RuntimeError" /\ Len(entered) > 0
        /\ "Prompt S/R" \in {col_module, row_module, page_module}) => renders = 0

\* ---- C9
\* C9 as stated: every blank has the mode and size of the first usable image
\* of the sweep.
C9_BlanksMatchFirstImage ==
    first_ok # <<>> =>
        \A b \in Blanks : b.mode = first_ok[1].mode /\ b.size = first_ok[1].size

\* C9 amended: a blank made for the cell of the first usable image or later
\* has the mode and size of that image; a blank made before any usable image
\* has mode "P" and size (1, 1).
C9_BlanksMatchRunningTemplate ==
    \A b \in Blanks :
        IF first_ok # <<>> /\ ~Before(b.at, first_ok[1].at)
        THEN b.mode = first_ok[1].mode /\ b.size = first_ok[1].size
        ELSE b.mode = "P" /\ b.size = <<1, 1>>

\* A blank made before the first usable image, and one made after two usable
\* images of different formats.
C9_Witness ==
    /\ first_ok # <<>>
    /\ \E b1, b2 \in Blanks :
         /\ b1.mode = "P" /\ Before(b1.at, first_ok[1].at)
         /\ b2.mode = first_ok[1].mode /\ Before(first_ok[1].at, b2.at)
    /\ \E i \in 1..Len(cache_images) :
         cache_images[i].t = "cell" /\ cache_images[i].mode # first_ok[1].mode

\* ---- C10
\* C10: a returned result with page count n > 0 has four lists of equal
\* length, the page grids in page order at positions 0..n-1 with prompt "",
\* seed -1 and info text "" at the same positions, and after them the images
\* of the cells in render order.
C10_ResultLayout ==
    (returned.done /\ returned.page_count > 0) =>
        LET r == returned.processed
            n == returned.page_count
        IN  /\ Len(r.all_prompts) = Len(r.images)
            /\ Len(r.all_seeds) = Len(r.images)
            /\ Len(r.infotexts) = Len(r.images)
            /\ n <= Len(r.images)
            /\ \A i \in 1..n :
                 /\ r.images[i].t = "grid" /\ r.images[i].at = <<i - 1>>
                 /\ r.all_prompts[i] = <<>> /\ r.all_seeds[i] = -1
                 /\ r.infotexts[i] = <<>>
            /\ \A i \in (n + 1)..Len(r.images) : r.images[i].t = "cell"
            /\ \A i, j \in (n + 1)..Len(r.images) :
                 i < j => Before(r.images[i].at, r.images[j].at)

\* ---- C11
\* The axes whose process_axis call has returned, by the position of run.
ColReturned == pc \in {"row_axis", "page_axis", "fix_seeds", "total_steps", "enter"}
RowReturned == pc \in {"page_axis", "fix_seeds", "total_steps", "enter"}
PageReturned == pc \in {"fix_seeds", "total_steps", "enter"}

\* C11: a value list that process_axis returned has at least one value.
C11_AtLeastOneValue ==
    /\ ColReturned => Len(col_field_values) >= 1
    /\ RowReturned => Len(row_field_values) >= 1
    /\ PageReturned => Len(page_field_values) >= 1

\* ---- C12
\* The text of a START or END: a digit, or "-1".
NumberText(n) == IF n < 0 THEN <<"-", DecimalDigits[1 - n]>> ELSE <<DecimalDigits[n + 1]>>

\* The column axis is an int axis with this one field.
IntField(f) == opt_type(col_module) = "int" /\ col_values = <<f>>

\* The examples of C12 other than "1-5(2)", and the scalar fields: a number is
\* its value, a word or an empty field is an error.
C12_Examples ==
    /\ (pc = "row_axis" /\ IntField(<<"1", "-", "5">>)) => col_field_values = <<1, 2, 3, 4, 5>>
    /\ (pc = "row_axis" /\ IntField(<<"1", "-", "5", "[", "3", "]">>)) =>
           col_field_values = <<1, 3, 5>>
    /\ \A n \in -1..MaxNum :
         IntField(NumberText(n)) =>
             /\ pc # "failed"
             /\ pc = "row_axis" => col_field_values = <<n>>
    /\ \A f \in { <<"x">>, <<>> } :
         IntField(f) =>
             /\ ~ColReturned
             /\ pc = "failed" => exc = "ValueError"

\* C12 as stated: "1-5(2)" gives [1, 3, 5], with the other examples.
C12_UnsignedStep ==
    /\ C12_Examples
    /\ IntField(<<"1", "-", "5", "(", "2", ")">>) =>
           /\ pc # "failed"
           /\ pc = "row_axis" => col_field_values = <<1, 3, 5>>

\* C12 amended: the step of a step range carries its sign: "1-5(+2)" gives
\* [1, 3, 5], and "1-5(2)", which matches neither grammar, is parsed as a
\* scalar, which raises ValueError; the other examples as stated.
C12_SignedStep ==
    /\ C12_Examples
    /\ (pc = "row_axis" /\ IntField(<<"1", "-", "5", "(", "+", "2", ")">>)) =>
           col_field_values = <<1, 3, 5>>
    /\ IntField(<<"1", "-", "5", "(", "2", ")">>) =>
           /\ ~ColReturned
           /\ pc = "failed" => exc = "ValueError"

\* A Steps column of the one field "1-5(+2)" has been expanded.
C12_Witness ==
    /\ pc = "row_axis" /\ col_module = "Steps"
    /\ col_values = << <<"1", "-", "5", "(", "+", "2", ")">> >>
    /\ col_field_values = <<1, 3, 5>>

\* ---- C13
\* The arithmetic sequence start, start + step, ... up to end inclusive, for
\* a step that leads from start toward end.
ArithmeticSequence(start, end, step) ==
    LET dist == IF end >= start THEN end - start ELSE start - end
        size == IF step > 0 THEN step ELSE 0 - step
    IN  [k \in 1..((dist \div size) + 1) |-> start + (k - 1) * step]

\* C13: a step-range field of an int axis with a signed nonzero step that
\* leads from START toward END expands to the arithmetic sequence from START
\* up to END inclusive.
C13_StepRangeInclusive ==
    \A s, e \in -1..MaxNum : \A t \in (0 - MaxStep)..MaxStep :
        ( /\ t # 0
          /\ (t > 0 => s <= e) /\ (t < 0 => s >= e)
          /\ pc \in {"row_axis", "failed"}
          /\ IntField(NumberText(s) \o <<"-">> \o NumberText(e)
                      \o <<"(", IF t > 0 THEN "+" ELSE "-",
                           DecimalDigits[(IF t > 0 THEN t ELSE 0 - t) + 1], ")">>) )
        => /\ pc = "row_axis"
           /\ col_field_values = ArithmeticSequence(s, e, t)

\* ---- C14
\* The three axes as <<label, values>>, column first.
ExpandedAxes ==
    << <<col_module, col_field_values>>, <<row_module, row_field_values>>,
       <<page_module, page_field_values>> >>

RECURSIVE Total(_, _)
Total(xs, n) == IF n = 0 THEN 0 ELSE Total(xs, n - 1) + xs[n]

\* C14: the total step count is, for an axis bound to Steps, the sum of its
\* values times the lengths of the other two axes, and with no such axis the
\* base steps times the three lengths; it is doubled with high-resolution
\* refinement, and the progress tracker gets it times n_iter.
C14_TotalSteps ==
    pc = "enter" =>
        LET ax == ExpandedAxes
            steps_axes == {i \in 1..3 : ax[i][1] = "Steps"}
            others(i) == IF i = 1 THEN Len(ax[2][2]) * Len(ax[3][2])
                         ELSE IF i = 2 THEN Len(ax[1][2]) * Len(ax[3][2])
                         ELSE Len(ax[1][2]) * Len(ax[2][2])
            factor == IF p.txt2img /\ p.enable_hr THEN 2 ELSE 1
        IN  /\ IF steps_axes = {}
               THEN total_steps = factor * p.steps * Len(ax[1][2]) * Len(ax[2][2])
                                      * Len(ax[3][2])
               ELSE \E i \in steps_axes :
                       total_steps = factor * Total(ax[i][2], Len(ax[i][2])) * others(i)
            /\ tqdm_total = total_steps * p.n_iter

\* Steps on the row axis only, three columns, high-resolution refinement and
\* two repeats.
C14_Witness ==
    /\ pc = "enter" /\ p.enable_hr /\ p.n_iter = 2
    /\ col_module = "Clip skip" /\ Len(col_field_values) = 3
    /\ row_module = "Steps" /\ row_field_values = <<1, 2>>
    /\ page_module = "Nothing"
    /\ total_steps = 18 /\ tqdm_total = 36

\* ---- C15
\* 0 <= r < 2^32 - 2 for a number in two halves.
InSeedRange(r) ==
    /\ r.hi \in 0..65535 /\ r.lo \in 0..65535
    /\ r.hi < 65535 \/ r.lo < 65534

\* The list `new` is the list `old` of an axis with this label after the seeds
\* were fixed.
SeedsFixed(label, old, new) ==
    IF label \in {"Seed", "Var. seed"}
    THEN /\ Len(new) = Len(old)
         /\ \A k \in 1..Len(old) :
              /\ IF old[k] = -1 THEN InSeedRange(new[k])
                 ELSE new[k] = [hi |-> old[k] \div 65536, lo |-> old[k] % 65536]
              /\ new[k] # [hi |-> -1, lo |-> 65535]
    ELSE new = old

\* C15: without keepUnfixedSeeds every -1 of a Seed or Var. seed axis has
\* become a number r, 0 <= r < 2^32 - 2, every other value of every axis is
\* the same at the same position, and no -1 is left in a seed axis; with
\* keepUnfixedSeeds the three lists are those that process_axis returned.
C15_SeedsFixed ==
    pc \in {"total_steps", "enter"} =>
        IF no_fixed_seeds
        THEN expanded = <<col_field_values, row_field_values, page_field_values>>
        ELSE /\ SeedsFixed(col_module, expanded[1], col_field_values)
             /\ SeedsFixed(row_module, expanded[2], row_field_values)
             /\ SeedsFixed(page_module, expanded[3], page_field_values)

\* A Seed column "-1, 2, -1" whose two -1 got different numbers, with a Var.
\* seed page whose -1 got the greatest number, and a Steps row left alone.
C15_Witness ==
    /\ pc = "enter" /\ ~no_fixed_seeds
    /\ col_module = "Seed" /\ expanded[1] = <<-1, 2, -1>>
    /\ col_field_values = <<[hi |-> 0, lo |-> 7], [hi |-> 0, lo |-> 2], [hi |-> 0, lo |-> 0]>>
    /\ row_module = "Steps" /\ row_field_values = <<1, 2>>
    /\ page_module = "Var. seed" /\ page_field_values = <<[hi |-> 65535, lo |-> 65533]>>

\* ---- C16
RECURSIVE Factorial(_)
Factorial(n) == IF n = 0 THEN 1 ELSE n * Factorial(n - 1)

\* The orderings of the positions 1..n.
Orderings(n) == {f \in [1..n -> 1..n] : \A i, j \in 1..n : f[i] = f[j] => i = j}

\* The values of a Prompt order column are n! sequences, each an ordering of
\* the n fields, and every ordering of the fields is among them.
AllOrderings ==
    LET n == Len(col_values)
    IN  /\ Len(col_field_values) = Factorial(n)
        /\ \A k \in 1..Len(col_field_values) :
             \E f \in Orderings(n) : col_field_values[k] = [i \in 1..n |-> col_values[f[i]]]
        /\ \A f \in Orderings(n) :
             \E k \in 1..Len(col_field_values) :
                col_field_values[k] = [i \in 1..n |-> col_values[f[i]]]

PairwiseDistinct(xs) == \A i, j \in 1..Len(xs) : xs[i] = xs[j] => i = j

\* C16 as stated: the n! sequences are pairwise distinct.
C16_DistinctOrderings ==
    (pc = "row_axis" /\ col_module = "Prompt order") =>
        AllOrderings /\ PairwiseDistinct(col_field_values)

\* C16 amended: n! sequences, each an ordering of the field list and every
\* ordering among them; they are pairwise distinct when the fields are.
C16_OrderingsOfPositions ==
    (pc = "row_axis" /\ col_module = "Prompt order") =>
        /\ AllOrderings
        /\ PairwiseDistinct(col_values) => PairwiseDistinct(col_field_values)

\* The six orderings of three different tokens.
C16_Witness ==
    /\ pc = "row_axis" /\ col_module = "Prompt order"
    /\ col_values = << <<"a">>, <<"b">>, <<"c">> >>
    /\ Len(col_field_values) = 6
    /\ col_field_values[4] = << <<"b">>, <<"c">>, <<"a">> >>

\* ---- C17
\* C17: the render calls come in strictly increasing order of (page index, row
\* index, column index), so no cell is rendered twice, and the image at
\* position r * cols + c of the input of a page's grid is the result or the
\* placeholder of the cell with row index r and column index c of that page.
C17_RowMajorSweep ==
    /\ \A i, j \in 1..Len(rendered) :
         i < j => Before(rendered[i].at, rendered[j].at)
    /\ \A k \in 1..Len(grid_calls) :
         \A i \in 1..Len(grid_calls[k]) :
            grid_calls[k][i].at = <<k - 1, (i - 1) \div NCols, (i - 1) % NCols>>

\* A finished sweep of two pages of one row of two cells: four renders, the
\* second page's grid made of its two cells.
C17_Witness ==
    /\ pc = "done"
    /\ NPages = 2 /\ NRows = 1 /\ NCols = 2
    /\ Len(rendered) = 4
    /\ rendered[3].at = <<1, 0, 0>>
    /\ Len(grid_calls) = 2
    /\ grid_calls[2][2].t = "cell" /\ grid_calls[2][2].at = <<1, 0, 1>>

\* ---- C18
\* C18: the progress text written before the cell at (ipg, ir, ic) reads
\* index + 1 out of pages * rows * cols, index = (ipg * rows + ir) * cols + ic.
C18_ProgressNumber ==
    pc = "check_col" =>
        job = <<(ipg * NRows + ir) * NCols + ic + 1, NPages * NRows * NCols>>

\* ---- C19
\* The request of the cell `at` as the three applies make it from the base
\* request and the settings of the entry of the with block.
CellRequest(at) ==
    LET a1 == opt_apply(col_module, entered[2], entered[1],
                        col_field_values[at[3] + 1], col_field_values)
        a2 == opt_apply(row_module, a1.req, a1.cfg,
                        row_field_values[at[2] + 1], row_field_values)
        a3 == opt_apply(page_module, a2.req, a2.cfg,
                        page_field_values[at[1] + 1], page_field_values)
    IN  a3.req

\* C19: the base request is, during and after the sweep, the one the sweep
\* started with, and the request rendered for a cell is what the column, row
\* and page applies make of that base request, whichever cells came before.
C19_FreshCopyPerCell ==
    Len(entered) > 0 =>
        /\ p = entered[2]
        /\ \A k \in 1..Len(rendered) : rendered[k].req = CellRequest(rendered[k].at)

\* A finished sweep whose cells were rendered with requests that differ from
\* each other and from the base request.
C19_Witness ==
    /\ pc = "done" /\ Len(rendered) >= 2
    /\ rendered[1].req # rendered[2].req
    /\ rendered[1].req # p /\ rendered[2].req # p
    /\ p = entered[2]

\* ---- C20
RECURSIVE RenderedSteps(_)
RenderedSteps(n) == IF n = 0 THEN 0 ELSE RenderedSteps(n - 1) + rendered[n].req.steps

\* C20: after an uninterrupted sweep without high-resolution refinement the
\* total step count equals the sum of the steps of the requests of all cells.
C20_TotalIsSumOfCells ==
    (pc = "done" /\ ~interrupted /\ ~(p.txt2img /\ p.enable_hr)) =>
        /\ Len(rendered) = NPages * NRows * NCols
        /\ total_steps = RenderedSteps(Len(rendered))

\* ---- C21
\* The 1-based positions at which the token t stands in the text.
OccursAt(text, t) == {i \in 1..(Len(text) + 1) : StartsAt(text, t, i)}

\* The position of a token that stands in the text once.
Slot(text, t) == CHOOSE i \in OccursAt(text, t) : TRUE

\* The tokens of x differ, each stands in the text exactly once, and no two
\* of them share a character of it.
TokensOnceApart(text, x) ==
    /\ \A i \in 1..Len(x) : Cardinality(OccursAt(text, x[i])) = 1
    /\ \A i, j \in 1..Len(x) :
         i # j => \/ Slot(text, x[i]) + Len(x[i]) <= Slot(text, x[j])
                  \/ Slot(text, x[j]) + Len(x[j]) <= Slot(text, x[i])
    /\ \A i, j \in 1..Len(x) : x[i] = x[j] => i = j

\* The tokens of x by the place they have in the text: the k-th slot holds
\* the token x[SlotOrder[k]].
SlotOrder(text, x) ==
    CHOOSE f \in Orderings(Len(x)) :
        \A i, j \in 1..Len(x) : i < j => Slot(text, x[f[i]]) < Slot(text, x[f[j]])

\* The text from position `from` on, with x[k], x[k + 1], ... put into the
\* k-th, (k + 1)-th, ... slot and the text between the slots as it is.
RECURSIVE SlotsFilled(_, _, _, _, _)
SlotsFilled(text, x, f, k, from) ==
    IF k > Len(x) THEN SubSeq(text, from, Len(text))
    ELSE SubSeq(text, from, Slot(text, x[f[k]]) - 1) \o x[k]
         \o SlotsFilled(text, x, f, k + 1, Slot(text, x[f[k]]) + Len(x[f[k]]))

\* C21: for a prompt that holds each token of the order value once and
\* without overlap, the prompt of the cell holds the tokens in the order of
\* the value, in the slots where the tokens stood, with every character
\* outside the tokens kept in its place between the slots.
C21_TokensReordered ==
    \A k \in 1..Len(rendered) :
        (col_module = "Prompt order"
         /\ TokensOnceApart(entered[2].prompt, col_field_values[rendered[k].at[3] + 1]))
        => rendered[k].req.prompt =
              SlotsFilled(entered[2].prompt, col_field_values[rendered[k].at[3] + 1],
                          SlotOrder(entered[2].prompt,
                                    col_field_values[rendered[k].at[3] + 1]), 1, 1)

\* Prompt "a r b d" with the tokens "b", "r": the cell of the value ("r", "b")
\* keeps the prompt, the cell of ("b", "r") gets "a b r d".
C21_Witness ==
    /\ col_module = "Prompt order"
    /\ col_values = << <<"b">>, <<"r">> >>
    /\ Len(rendered) = 2
    /\ entered[2].prompt = <<"a", " ", "r", " ", "b", " ", "d">>
    /\ col_field_values[1] = << <<"b">>, <<"r">> >>
    /\ TokensOnceApart(entered[2].prompt, col_field_values[1])
    /\ rendered[1].req.prompt = <<"a", " ", "b", " ", "r", " ", "d">>
    /\ col_field_values[2] = << <<"r">>, <<"b">> >>
    /\ rendered[2].req.prompt = <<"a", " ", "r", " ", "b", " ", "d">>

\* Three tokens that stand in the prompt in another order than the value has.
C21_ThreeTokens ==
    /\ col_module = "Prompt order" /\ Len(rendered) >= 1
    /\ entered[2].prompt = <<"g", " ", "r", " ", "b">>
    /\ col_field_values[1] = << <<"b">>, <<"g">>, <<"r">> >>
    /\ TokensOnceApart(entered[2].prompt, col_field_values[1])
    /\ rendered[1].req.prompt = <<"b", " ", "g", " ", "r">>

====
